---- MODULE Spec2Model ----
(***************************************************************************)
(* Place-of-birth reconciliation (modules/tempat_lahir.py): the text       *)
(* normalizer, the gazetteer loader and the two matching engines.          *)
(* Strings are sequences of one-character strings, so that the regular     *)
(* expressions, the prefix test and the similarity ratio are computed      *)
(* character by character as the Python code computes them.                *)
(***************************************************************************)
EXTENDS Integers, Sequences, FiniteSets, TLC

(* ---------------------------------------------------------------------- *)
(* Characters                                                              *)
(* ---------------------------------------------------------------------- *)

\* The absent marker (None / NaN): pd.isna(x) is x = Null.  It is a sequence,
\* as every string is, holding one element that is no character.
Null == <<"<null>">>

UpperSeq ==
  << "A", "B", "C", "D", "E", "F", "G", "H", "I", "J", "K", "L", "M", "N", "O", "P", "Q", "R", "S", "T", "U", "V", "W", "X", "Y", "Z" >>

LowerSeq ==
  << "a", "b", "c", "d", "e", "f", "g", "h", "i", "j", "k", "l", "m", "n", "o", "p", "q", "r", "s", "t", "u", "v", "w", "x", "y", "z" >>

DigitSeq ==
  << "0", "1", "2", "3", "4", "5", "6", "7", "8", "9" >>

UpperChars == {UpperSeq[k] : k \in DOMAIN UpperSeq}

LowerChars == {LowerSeq[k] : k \in DOMAIN LowerSeq}

DigitChars == {DigitSeq[k] : k \in DOMAIN DigitSeq}

\* \s of the regular expressions and of str.split()
SpaceChars == {" ", "\t"}

\* \w of the regular expressions: letters, digits and the underscore
WordChars == UpperChars \cup LowerChars \cup DigitChars \cup {"_"}

\* str.upper(), one character
ToUpper(c) ==
  IF c \in LowerChars
    THEN UpperSeq[CHOOSE k \in DOMAIN LowerSeq : LowerSeq[k] = c]
    ELSE c

\* Code-point order of the characters a normalized name can hold
\* (tab < space < digits < upper-case letters < underscore < lower-case).
CharOrder == <<"\t", " ">> \o DigitSeq \o UpperSeq \o <<"_">> \o LowerSeq

Ord(c) == CHOOSE k \in DOMAIN CharOrder : CharOrder[k] = c

(* ---------------------------------------------------------------------- *)
(* normalize_tempat_lahir                                                  *)
(* ---------------------------------------------------------------------- *)

\* name.upper()
Upper(s) == [k \in DOMAIN s |-> ToUpper(s[k])]

\* re.sub(r'[^\w\s]', ' ', name)
SubNonWord(s) ==
  [k \in DOMAIN s |-> IF s[k] \in WordChars \cup SpaceChars THEN s[k] ELSE " "]

IsNotDigit(c) == c \notin DigitChars

\* re.sub(r'\d+', '', name)
RemoveDigits(s) == SelectSeq(s, IsNotDigit)

\* re.sub(r'\s+', ' ', name): every maximal run of whitespace becomes one space
RECURSIVE CollapseSpaces(_)
CollapseSpaces(s) ==
  IF s = <<>> THEN <<>>
  ELSE IF Head(s) \in SpaceChars
    THEN IF Len(s) >= 2 /\ s[2] \in SpaceChars
           THEN CollapseSpaces(Tail(s))
           ELSE <<" ">> \o CollapseSpaces(Tail(s))
    ELSE <<Head(s)>> \o CollapseSpaces(Tail(s))

RECURSIVE LStrip(_)
LStrip(s) ==
  IF s # <<>> /\ Head(s) \in SpaceChars THEN LStrip(Tail(s)) ELSE s

RECURSIVE RStrip(_)
RStrip(s) ==
  IF s # <<>> /\ s[Len(s)] \in SpaceChars
    THEN RStrip(SubSeq(s, 1, Len(s) - 1))
    ELSE s

\* str.strip()
Strip(s) == RStrip(LStrip(s))

\* Lines 20-28: upper-case, punctuation to space, digits out, spaces collapsed
CleanName(s) == Strip(CollapseSpaces(RemoveDigits(SubNonWord(Upper(s)))))

\* The prefixes dict (insertion order); every replacement is ''
prefixes ==
  << <<"D", "E", "S", "A", " ">>,
     <<"K", "E", "L", "U", "R", "A", "H", "A", "N", " ">>,
     <<"K", "E", "L", " ">>,
     <<"D", "S", " ">>,
     <<"K", "E", "C", " ">>,
     <<"K", "E", "C", "A", "M", "A", "T", "A", "N", " ">>,
     <<"K", "A", "B", " ">>,
     <<"K", "A", "B", "U", "P", "A", "T", "E", "N", " ">>,
     <<"K", "O", "T", "A", " ">>,
     <<"P", "R", "O", "V", "I", "N", "S", "I", " ">>,
     <<"P", "R", "O", "V", " ">> >>

\* The special_cases dict (insertion order), <<key, replacement>>
special_cases ==
  << << <<"J", "K", "T">>,
        <<"J", "A", "K", "A", "R", "T", "A">> >>,
     << <<"J", "A", "K", "A", "R", "T", "A", " ", "P", "U", "S", "A", "T">>,
        <<"J", "A", "K", "A", "R", "T", "A">> >>,
     << <<"J", "A", "K", "A", "R", "T", "A", " ", "B", "A", "R", "A", "T">>,
        <<"J", "A", "K", "A", "R", "T", "A">> >>,
     << <<"J", "A", "K", "A", "R", "T", "A", " ", "T", "I", "M", "U", "R">>,
        <<"J", "A", "K", "A", "R", "T", "A">> >>,
     << <<"J", "A", "K", "A", "R", "T", "A", " ", "S", "E", "L", "A", "T", "A", "N">>,
        <<"J", "A", "K", "A", "R", "T", "A">> >>,
     << <<"J", "A", "K", "A", "R", "T", "A", " ", "U", "T", "A", "R", "A">>,
        <<"J", "A", "K", "A", "R", "T", "A">> >>,
     << <<"D", "K", "I", " ", "J", "A", "K", "A", "R", "T", "A">>,
        <<"J", "A", "K", "A", "R", "T", "A">> >>,
     << <<"J", "O", "G", "J", "A", "K", "A", "R", "T", "A">>,
        <<"Y", "O", "G", "Y", "A", "K", "A", "R", "T", "A">> >>,
     << <<"J", "O", "G", "J", "A">>,
        <<"Y", "O", "G", "Y", "A", "K", "A", "R", "T", "A">> >>,
     << <<"Y", "O", "G", "Y", "A">>,
        <<"Y", "O", "G", "Y", "A", "K", "A", "R", "T", "A">> >>,
     << <<"K", "O", "T", "A", " ", "B", "A", "R", "U">>,
        <<"K", "O", "T", "A", "B", "A", "R", "U">> >>,
     << <<"K", "O", "T", "A", " ", "B", "A", "R", "O", "E">>,
        <<"K", "O", "T", "A", "B", "A", "R", "U">> >>,
     << <<"K", "O", "T", "A", "W", "A", "R", "I", "N", "G", "I", "N">>,
        <<"K", "O", "T", "A", "W", "A", "R", "I", "N", "G", "I", "N", " ", "B", "A", "R", "A", "T">> >>,
     << <<"K", "O", "T", "A", "W", "A", "R", "I", "N", "G", "I", "N", " ", "B", "R", "T">>,
        <<"K", "O", "T", "A", "W", "A", "R", "I", "N", "G", "I", "N", " ", "B", "A", "R", "A", "T">> >>,
     << <<"K", "O", "T", "A", "W", "A", "R", "I", "N", "G", "I", "N", " ", "T", "I", "M", "U", "R">>,
        <<"K", "O", "T", "A", "W", "A", "R", "I", "N", "G", "I", "N", " ", "T", "I", "M", "U", "R">> >>,
     << <<"K", "O", "T", "A", "W", "A", "R", "I", "N", "G", "I", "N", " ", "T", "M", "R">>,
        <<"K", "O", "T", "A", "W", "A", "R", "I", "N", "G", "I", "N", " ", "T", "I", "M", "U", "R">> >>,
     << <<"5", "0", " ", "K", "O", "T", "A">>,
        <<"L", "I", "M", "A", " ", "P", "U", "L", "U", "H", " ", "K", "O", "T", "A">> >>,
     << <<"L", "I", "M", "A", " ", "5", "0", " ", "K", "O", "T", "A">>,
        <<"L", "I", "M", "A", " ", "P", "U", "L", "U", "H", " ", "K", "O", "T", "A">> >>,
     << <<"K", "O", "T", "A", " ", "K", "O", "T", "A", "M", "O", "B", "A", "G", "U">>,
        <<"K", "O", "T", "A", "M", "O", "B", "A", "G", "U">> >>,
     << <<"P", "E", "K", "A", "N", " ", "B", "A", "R", "U">>,
        <<"P", "E", "K", "A", "N", "B", "A", "R", "U">> >>,
     << <<"L", "U", "B", "U", "K", " ", "L", "I", "N", "G", "G", "A", "U">>,
        <<"L", "U", "B", "U", "K", "L", "I", "N", "G", "G", "A", "U">> >>,
     << <<"K", "A", "B", "U", "P", "A", "T", "E", "N", " ", "B", "A", "T", "U", " ", "B", "A", "R", "A">>,
        <<"K", "A", "B", "U", "P", "A", "T", "E", "N", " ", "B", "A", "T", "U", "B", "A", "R", "A">> >> >>

\* name.startswith(prefix)
StartsWith(s, p) == Len(s) >= Len(p) /\ SubSeq(s, 1, Len(p)) = p

\* Lines 45-47: EVERY prefix of the dict is tried in turn on the current name
RECURSIVE StripFrom(_, _)
StripFrom(name, k) ==
  IF k > Len(prefixes) THEN name
  ELSE StripFrom(IF StartsWith(name, prefixes[k])
                   THEN SubSeq(name, Len(prefixes[k]) + 1, Len(name))
                   ELSE name,
                 k + 1)

\* StripPrefixes that strips nothing
StripPrefixesNone(name) == name

StripPrefixes(name) == StripFrom(name, 1)

\* Lines 77-79: every special case is compared in turn with the current name
RECURSIVE SpecialFrom(_, _)
SpecialFrom(name, k) ==
  IF k > Len(special_cases) THEN name
  ELSE SpecialFrom(IF name = special_cases[k][1] THEN special_cases[k][2] ELSE name,
                   k + 1)

\* A substitution wherever the name begins with a key
RECURSIVE SpecialPrefixFrom(_, _)
SpecialPrefixFrom(name, k) ==
  IF k > Len(special_cases) THEN name
  ELSE SpecialPrefixFrom(
         IF StartsWith(name, special_cases[k][1])
           THEN special_cases[k][2]
                  \o SubSeq(name, Len(special_cases[k][1]) + 1, Len(name))
           ELSE name,
         k + 1)

ApplySpecialSubstring(name) == SpecialPrefixFrom(name, 1)

ApplySpecialCases(name) == SpecialFrom(name, 1)

\* Lines 77-79: how many times the assignment of line 79 runs for a name
RECURSIVE SpecialHitsFrom(_, _)
SpecialHitsFrom(name, k) ==
  IF k > Len(special_cases) THEN 0
  ELSE IF name = special_cases[k][1]
    THEN 1 + SpecialHitsFrom(special_cases[k][2], k + 1)
    ELSE SpecialHitsFrom(name, k + 1)

SpecialHits(name) == SpecialHitsFrom(name, 1)

normalize_tempat_lahir(name) ==
  IF name = Null THEN name
  ELSE ApplySpecialCases(StripPrefixes(CleanName(name)))

(* ---------------------------------------------------------------------- *)
(* rapidfuzz: fuzz.token_sort_ratio and process.extractOne                 *)
(* ---------------------------------------------------------------------- *)

\* str.split(): the maximal runs of non-whitespace characters
RECURSIVE SplitWs(_, _)
SplitWs(s, cur) ==
  IF s = <<>> THEN (IF cur = <<>> THEN <<>> ELSE <<cur>>)
  ELSE IF Head(s) \in SpaceChars
    THEN (IF cur = <<>> THEN <<>> ELSE <<cur>>) \o SplitWs(Tail(s), <<>>)
    ELSE SplitWs(Tail(s), Append(cur, Head(s)))

\* a < b for Python strings (code-point order, a proper prefix is smaller)
RECURSIVE LexLess(_, _)
LexLess(a, b) ==
  IF b = <<>> THEN FALSE
  ELSE IF a = <<>> THEN TRUE
  ELSE IF Ord(Head(a)) # Ord(Head(b)) THEN Ord(Head(a)) < Ord(Head(b))
  ELSE LexLess(Tail(a), Tail(b))

RECURSIVE InsertSorted(_, _)
InsertSorted(tok, toks) ==
  IF toks = <<>> THEN <<tok>>
  ELSE IF LexLess(tok, Head(toks)) THEN <<tok>> \o toks
  ELSE <<Head(toks)>> \o InsertSorted(tok, Tail(toks))

\* sorted(tokens)
RECURSIVE SortTokens(_)
SortTokens(toks) ==
  IF toks = <<>> THEN <<>>
  ELSE InsertSorted(Head(toks), SortTokens(Tail(toks)))

\* " ".join(tokens)
RECURSIVE JoinTokens(_)
JoinTokens(toks) ==
  IF toks = <<>> THEN <<>>
  ELSE IF Len(toks) = 1 THEN Head(toks)
  ELSE Head(toks) \o <<" ">> \o JoinTokens(Tail(toks))

TokenSort(s) == JoinTokens(SortTokens(SplitWs(s, <<>>)))

\* Length of the longest common subsequence (the Indel similarity is 2 * LCS)
RECURSIVE LCS(_, _)
LCS(a, b) ==
  IF a = <<>> \/ b = <<>> THEN 0
  ELSE IF Head(a) = Head(b) THEN 1 + LCS(Tail(a), Tail(b))
  ELSE LET x == LCS(Tail(a), b)
           y == LCS(a, Tail(b))
       IN IF x >= y THEN x ELSE y

\* Scores are kept in hundredths of a percent: Pct(100) is 100.0
Pct(p) == p * 100

\* fuzz.ratio: 100 * (1 - indel_distance / (len1 + len2)), two empty strings
\* are 100 % similar
Ratio(a, b) ==
  IF Len(a) + Len(b) = 0 THEN Pct(100)
  ELSE (2 * LCS(a, b) * Pct(100)) \div (Len(a) + Len(b))

token_sort_ratio(a, b) == Ratio(TokenSort(a), TokenSort(b))

\* Highest score over the choices
BestScore(query, choices) ==
  CHOOSE sc \in {token_sort_ratio(query, choices[k]) : k \in DOMAIN choices} :
    \A k \in DOMAIN choices : token_sort_ratio(query, choices[k]) <= sc

\* process.extractOne(query, choices, scorer=fuzz.token_sort_ratio): the first
\* choice in list order that has the highest score, None for no choices
extractOne(query, choices) ==
  IF choices = <<>> THEN Null
  ELSE LET best == BestScore(query, choices)
           k == CHOOSE j \in DOMAIN choices :
                  /\ token_sort_ratio(query, choices[j]) = best
                  /\ \A h \in 1..(j - 1) : token_sort_ratio(query, choices[h]) < best
       IN <<choices[k], best>>

(* ---------------------------------------------------------------------- *)
(* load_reference_data                                                     *)
(* ---------------------------------------------------------------------- *)

\* drop_duplicates(): the first occurrence of every row is kept, in order
RECURSIVE DropDuplicates(_)
DropDuplicates(s) ==
  IF s = <<>> THEN <<>>
  ELSE LET front == DropDuplicates(SubSeq(s, 1, Len(s) - 1))
           last == s[Len(s)]
       IN IF \E k \in DOMAIN front : front[k] = last THEN front
          ELSE Append(front, last)

HasNama(r) == r.nama # Null

HasNamaKode(r) == r.nama # Null /\ r.kode # Null

\* ref_data[[col]].dropna().drop_duplicates(), renamed, kode = nama, level set
LevelFrame(src, col, level) ==
  LET proj == [k \in DOMAIN src |->
                 [nama |-> src[k][col], kode |-> src[k][col], level |-> level]]
  IN DropDuplicates(SelectSeq(proj, HasNama))

\* Lines 172-174: the village frame keeps NAMOBJ as the code
DesaFrame(src) ==
  LET proj == [k \in DOMAIN src |->
                 [nama |-> src[k].WADMKD, kode |-> src[k].NAMOBJ, level |-> "desa"]]
  IN DropDuplicates(SelectSeq(proj, HasNamaKode))

\* Lines 195-198: the four frames concatenated, every name normalized
AllLocations(src) ==
  LET cat == DesaFrame(src) \o LevelFrame(src, "WADMKC", "kecamatan")
               \o LevelFrame(src, "WADMKK", "kabupaten")
               \o LevelFrame(src, "WADMPR", "provinsi")
  IN [k \in DOMAIN cat |->
        [nama |-> cat[k].nama, kode |-> cat[k].kode, level |-> cat[k].level,
         nama_normalized |-> normalize_tempat_lahir(cat[k].nama)]]

\* The columns load_reference_data selects (lines 172, 177, 183, 189)
RequiredColumns == {"NAMOBJ", "WADMKD", "WADMKC", "WADMKK", "WADMPR"}

\* pd.read_csv succeeds and every selected column exists
CanLoad(src) == src.readable /\ RequiredColumns \subseteq src.columns

\* A loader that builds the levels whose columns exist and skips the others
AllLocationsPresent(src) ==
  LET rows == src.rows
      cat == (IF {"NAMOBJ", "WADMKD"} \subseteq src.columns
                THEN DesaFrame(rows) ELSE <<>>)
               \o (IF "WADMKC" \in src.columns
                     THEN LevelFrame(rows, "WADMKC", "kecamatan") ELSE <<>>)
               \o (IF "WADMKK" \in src.columns
                     THEN LevelFrame(rows, "WADMKK", "kabupaten") ELSE <<>>)
               \o (IF "WADMPR" \in src.columns
                     THEN LevelFrame(rows, "WADMPR", "provinsi") ELSE <<>>)
  IN [k \in DOMAIN cat |->
        [nama |-> cat[k].nama, kode |-> cat[k].kode, level |-> cat[k].level,
         nama_normalized |-> normalize_tempat_lahir(cat[k].nama)]]

LoadOutcomePartial(src) ==
  IF src.readable
    THEN [ok |-> TRUE, ref_data |-> AllLocationsPresent(src)]
    ELSE [ok |-> FALSE, ref_data |-> <<>>]

\* Lines 168-203: the function returns only after all four levels are built;
\* an unreadable file raises on line 168, a missing column raises KeyError on
\* the line that selects it
LoadOutcome(src) ==
  IF CanLoad(src)
    THEN [ok |-> TRUE, ref_data |-> AllLocations(src.rows)]
    ELSE [ok |-> FALSE, ref_data |-> <<>>]

\* The candidate set taken from the column nama instead of nama_normalized
RefSetRaw(all_locations) ==
  {all_locations[k].nama : k \in DOMAIN all_locations}

\* Line 201
RefSet(all_locations) ==
  {all_locations[k].nama_normalized : k \in DOMAIN all_locations}

\* The map with the first row of a name kept instead of the last
ExactMatchMapFirst(rd) ==
  [key \in {rd[k].nama_normalized : k \in DOMAIN rd} |->
     LET first == CHOOSE k \in DOMAIN rd :
                    /\ rd[k].nama_normalized = key
                    /\ \A h \in DOMAIN rd : rd[h].nama_normalized = key => h >= k
     IN <<rd[first].nama, rd[first].level>>]

\* dict(zip(nama_normalized, zip(nama, level))): a later row replaces an earlier one
ExactMatchMap(rd) ==
  [key \in {rd[k].nama_normalized : k \in DOMAIN rd} |->
     LET last == CHOOSE k \in DOMAIN rd :
                   /\ rd[k].nama_normalized = key
                   /\ \A h \in DOMAIN rd : rd[h].nama_normalized = key => h <= k
     IN <<rd[last].nama, rd[last].level>>]

(* ---------------------------------------------------------------------- *)
(* Inputs                                                                  *)
(* ---------------------------------------------------------------------- *)

\* Longest row set handed to a reconcile call
MaxRows == 2

\* Most rows of the gazetteer source table
MaxRef == 2

\* Most words of a string handed to the normalizer alone
MaxWords == 3

\* All sequences over S of length 0..n
SeqsUpTo(S, n) == UNION {[1..m -> S] : m \in 0..n}

\* Place cells of the uploaded rows: missing, digits and punctuation only
\* (normalizes to ''), "ab", "aba", "ac"
PlacePool ==
  { Null, <<"1", "!">>, <<"a", "b">>, <<"a", "b", "a">>, <<"a", "c">> }

\* Rows of the gazetteer source table (NAMOBJ, WADMKD, WADMKC, WADMKK, WADMPR)
SourcePool ==
  { [NAMOBJ |-> <<"K", "1">>, WADMKD |-> <<"A", "b">>,
     WADMKC |-> <<"K", "e", "c", ".", " ", "A", "b">>,
     WADMKK |-> Null, WADMPR |-> <<"B", "a">>],
    [NAMOBJ |-> <<"K", "2">>, WADMKD |-> <<"B", "a">>,
     WADMKC |-> Null,
     WADMKK |-> <<"K", "o", "t", "a", " ", "A", "b">>, WADMPR |-> <<"1", "2">>],
    [NAMOBJ |-> Null, WADMKD |-> <<"B", "a">>,
     WADMKC |-> <<"A", "b">>,
     WADMKK |-> <<"A", "b">>, WADMPR |-> Null] }

\* The columns a row of the source table keeps
Project(row, cols) == [c \in cols \cap DOMAIN row |-> row[c]]

ProjectRows(rows, cols) == [k \in DOMAIN rows |-> Project(rows[k], cols)]

\* The source files: a readable table with all columns, a readable table that
\* lacks one of the columns, a file that cannot be read
Sources ==
  {[readable |-> TRUE, columns |-> RequiredColumns, rows |-> t] :
     t \in SeqsUpTo(SourcePool, MaxRef)}
  \cup {[readable |-> TRUE, columns |-> RequiredColumns \ {c},
         rows |-> ProjectRows(t, RequiredColumns \ {c})] :
          t \in SeqsUpTo(SourcePool, MaxRef), c \in RequiredColumns}
  \cup {[readable |-> FALSE, columns |-> {}, rows |-> <<>>]}

\* threshold is an integer percentage; 80 and 81 sit on both sides of the
\* best score of "ABA" (80.0)
Thresholds == {80, 81}

Engines == {"optimized", "rowwise"}

\* The orders list(ref_set) can have: a set has no order of its own
Orderings(S) ==
  {f \in [1..Cardinality(S) -> S] : \A a \in S : \E k \in DOMAIN f : f[k] = a}

(* ---------------------------------------------------------------------- *)
(* State                                                                   *)
(* ---------------------------------------------------------------------- *)

VARIABLES
  source,          \* the gazetteer source table, as read by pd.read_csv
  ref_data,        \* all_locations returned by load_reference_data
  ref_set,         \* ref_set returned by load_reference_data
  ref_list,        \* list(ref_set), the enumeration order of this process
  pc,              \* position of the caller / of the running reconcile call
  engine,          \* which of the two validate functions is running
  threshold,       \* argument of the call
  data,            \* argument of the call: the caller's rows
  failVal,         \* the value for which the similarity computation raises
  validated_data,  \* the local copy the call augments and returns
  unique_fuzzy,    \* distinct values that need approximate matching
  fuzzy_results,   \* per distinct value result of the optimized engine
  i,               \* loop counter of the running loop
  progress,        \* fractions handed to progress_callback, in order
  scored,          \* queries handed to process.extractOne, in order
  nOrig,           \* normalizer alone: the string first handed in
  nArg,            \* normalizer alone: argument of the running call
  nPc,             \* normalizer alone: position in normalize_tempat_lahir
  nCall,           \* normalizer alone: 1 for the first call, 2 for the second
  nClean,          \* name after line 28
  nStripped,       \* name after line 47
  nOut,            \* value returned
  nFirst,          \* value returned by the first call
  calls,           \* how many times the caller has repeated the same call
  last_output,     \* what the previous of these calls returned
  cancel_requested,\* the caller has asked for the running batch to be aborted
  app_pc,          \* app.py: position in the script run
  app_error,       \* app.py: st.error messages shown, in order
  app_steps,       \* app.py: validation steps started, in order
  app_file         \* app.py: the rows of the uploaded sheet, as read

mainVars ==
  << source, ref_data, ref_set, ref_list, pc, engine, threshold, data, failVal,
     validated_data, unique_fuzzy, fuzzy_results, i, progress, scored >>

normVars == << nOrig, nArg, nPc, nCall, nClean, nStripped, nOut, nFirst >>

callVars == << calls, last_output, cancel_requested >>

appVars == << app_pc, app_error, app_steps, app_file >>

vars == << mainVars, normVars, callVars, appVars >>

(* ---------------------------------------------------------------------- *)
(* Row sets (DataFrames): a sequence of rows, a row maps column -> cell    *)
(* ---------------------------------------------------------------------- *)

ResultColumns ==
  { "tempat_lahir_normalized", "valid_tempat_lahir", "koreksi_tempat_lahir",
    "level_administrasi", "confidence_score" }

\* df[col] = value / df.loc[idx, col] = value: the column is added or overwritten
SetCols(row, upd) ==
  [c \in DOMAIN row \cup DOMAIN upd |-> IF c \in DOMAIN upd THEN upd[c] ELSE row[c]]

\* The caller's DataFrame for a list of place cells
MakeData(places) ==
  [k \in DOMAIN places |-> [ID |-> k, TEMPAT_LAHIR |-> places[k]]]

\* InitResults with the normalized value written over the place column
InitResultsInPlace(d) ==
  [k \in DOMAIN d |->
     SetCols(d[k],
             [TEMPAT_LAHIR |-> normalize_tempat_lahir(d[k].TEMPAT_LAHIR),
              tempat_lahir_normalized |-> normalize_tempat_lahir(d[k].TEMPAT_LAHIR),
              valid_tempat_lahir |-> FALSE,
              koreksi_tempat_lahir |-> Null,
              level_administrasi |-> Null,
              confidence_score |-> 0])]

\* Lines 89-96 and 220-229: copy, normalized column, the four result columns
InitResults(d) ==
  [k \in DOMAIN d |->
     SetCols(d[k],
             [tempat_lahir_normalized |-> normalize_tempat_lahir(d[k].TEMPAT_LAHIR),
              valid_tempat_lahir |-> FALSE,
              koreksi_tempat_lahir |-> Null,
              level_administrasi |-> Null,
              confidence_score |-> 0])]

\* ExactHit that keeps the score the row had
ExactHitNoScore(row, entry) ==
  SetCols(row, [valid_tempat_lahir |-> TRUE,
                koreksi_tempat_lahir |-> entry[1],
                level_administrasi |-> entry[2]])

\* Lines 108-111 and 245-249: an exact hit
ExactHit(row, entry) ==
  SetCols(row, [valid_tempat_lahir |-> TRUE,
                confidence_score |-> Pct(100),
                koreksi_tempat_lahir |-> entry[1],
                level_administrasi |-> entry[2]])

\* exact_match_map.get(match, (match, 'tidak diketahui'))
MapGet(map, key) ==
  IF key \in DOMAIN map THEN map[key] ELSE <<key, "tidak diketahui">>

\* Line 100: validated_data['tempat_lahir_normalized'].isin(ref_set)
ExactMask(vd, rs) ==
  [k \in DOMAIN vd |-> vd[k].tempat_lahir_normalized \in rs]

\* Lines 104-111: every row of the mask whose value is a key of the map
SetExactMatches(vd, rd, rs) ==
  LET map == ExactMatchMap(rd)
      mask == ExactMask(vd, rs)
  IN [k \in DOMAIN vd |->
        IF mask[k] /\ vd[k].tempat_lahir_normalized \in DOMAIN map
          THEN ExactHit(vd[k], map[vd[k].tempat_lahir_normalized])
          ELSE vd[k]]

\* Unique that keeps every occurrence
UniqueKeepAll(s) == s

\* Series.unique(): distinct values in order of first appearance
RECURSIVE Unique(_)
Unique(s) ==
  IF Len(s) <= 1 THEN s
  ELSE LET half == Len(s) \div 2
           front == Unique(SubSeq(s, 1, half))
           back == Unique(SubSeq(s, half + 1, Len(s)))
           IsNew(v) == \A k \in DOMAIN front : front[k] # v
       IN front \o SelectSeq(back, IsNew)

\* Lines 114 and 118: the values of the rows outside the mask
RECURSIVE FuzzyValues(_, _)
FuzzyValues(vd, rs) ==
  IF vd = <<>> THEN <<>>
  ELSE IF Len(vd) = 1
    THEN IF vd[1].tempat_lahir_normalized \in rs
           THEN <<>> ELSE <<vd[1].tempat_lahir_normalized>>
    ELSE LET half == Len(vd) \div 2
         IN FuzzyValues(SubSeq(vd, 1, half), rs)
              \o FuzzyValues(SubSeq(vd, half + 1, Len(vd)), rs)

\* pd.isna(temp_lahir) or temp_lahir == ''
IsBlank(v) == v = Null \/ v = <<>>

\* The fraction of the values done once the current one is finished
FractionNext(k, total) == IF k + 1 >= total THEN <<1, 1>> ELSE <<k + 1, total>>

\* min(i / total, 1.0) as the pair <<numerator, denominator>>; 1.0 is <<1, 1>>
Fraction(k, total) == IF k >= total THEN <<1, 1>> ELSE <<k, total>>

One == <<1, 1>>

\* Lines 142 and 271: the callback is invoked when the counter is a multiple
ReportEveryOptimized == 100

\* A report after each single row
ReportEachRow == Cardinality({"row"})

ReportEveryRowwise == 10

\* Lines 129-140: the entry kept for a distinct value that reached the threshold
FuzzyEntry(result, map) ==
  [valid |-> TRUE, score |-> result[2],
   koreksi |-> MapGet(map, result[1])[1],
   level |-> MapGet(map, result[1])[2]]

\* Accepted for every best candidate, whatever its score
AcceptedAny(result, th) == result # Null

\* Accepted with a strict comparison
AcceptedStrict(result, th) == result # Null /\ result[2] > Pct(th)

\* Lines 129-133 and 259-263: result and len(result) >= 2 and score >= threshold
Accepted(result, th) == result # Null /\ result[2] >= Pct(th)

\* Lines 146-151: each kept result is written to every row holding its value
ApplyFuzzyResults(vd, fr) ==
  [k \in DOMAIN vd |->
     IF vd[k].tempat_lahir_normalized \in DOMAIN fr
       THEN LET r == fr[vd[k].tempat_lahir_normalized]
            IN SetCols(vd[k], [valid_tempat_lahir |-> r.valid,
                               confidence_score |-> r.score,
                               koreksi_tempat_lahir |-> r.koreksi,
                               level_administrasi |-> r.level])
       ELSE vd[k]]

\* Lines 264-268: an approximate hit of the row-wise engine
FuzzyHit(row, result, map) ==
  SetCols(row, [valid_tempat_lahir |-> TRUE,
                confidence_score |-> result[2],
                koreksi_tempat_lahir |-> MapGet(map, result[1])[1],
                level_administrasi |-> MapGet(map, result[1])[2]])

EmptyMap == [k \in {} |-> Null]

(* ---------------------------------------------------------------------- *)
(* The gazetteer is loaded, then reconcile calls run against it            *)
(* ---------------------------------------------------------------------- *)

NormIdle ==
  /\ nOrig = Null /\ nArg = Null /\ nPc = "off" /\ nCall = 0
  /\ nClean = Null /\ nStripped = Null /\ nOut = Null /\ nFirst = Null

\* No call has been repeated
CallIdle == calls = 0 /\ last_output = <<>> /\ cancel_requested = FALSE

\* The script of app.py is not running
AppIdle ==
  app_pc = "off" /\ app_error = <<>> /\ app_steps = <<>> /\ app_file = <<>>

Init ==
  /\ source \in Sources
  /\ ref_data = <<>> /\ ref_set = {} /\ ref_list = <<>>
  /\ pc = "idle"
  /\ engine = "none" /\ threshold = 0 /\ data = <<>> /\ failVal = Null
  /\ validated_data = <<>> /\ unique_fuzzy = <<>> /\ fuzzy_results = EmptyMap
  /\ i = 0 /\ progress = <<>> /\ scored = <<>>
  /\ NormIdle /\ CallIdle /\ AppIdle

\* load_reference_data; the order in which this process enumerates ref_set is
\* fixed from here on
LoadReferenceData ==
  /\ pc = "idle"
  /\ LoadOutcome(source).ok
  /\ ref_data' = LoadOutcome(source).ref_data
  /\ ref_set' = RefSet(ref_data')
  /\ ref_list' \in Orderings(ref_set')
  /\ pc' = "ready"
  /\ UNCHANGED << source, engine, threshold, data, failVal, validated_data,
                  unique_fuzzy, fuzzy_results, i, progress, scored, normVars, callVars, appVars >>

\* load_reference_data raises: nothing is returned
LoadFails ==
  /\ pc = "idle"
  /\ ~LoadOutcome(source).ok
  /\ pc' = "load_failed"
  /\ UNCHANGED << source, ref_data, ref_set, ref_list, engine, threshold, data,
                  failVal, validated_data, unique_fuzzy, fuzzy_results, i,
                  progress, scored, normVars, callVars, appVars >>

\* The values of a row set whose similarity computation can be made to fail
Scorable(places) ==
  {normalize_tempat_lahir(places[k]) : k \in DOMAIN places} \ {Null, <<>>}

\* A call: the arguments, then lines 89-96 (220-235 in the row-wise engine).
\* A progress_callback is always passed, as both calls of app.py do, so the
\* `if progress_callback` tests of lines 142, 153, 271 and 275 are true.
CallWith(e, first, pool, ths) ==
  /\ pc = "ready"
  /\ \E places \in SeqsUpTo(pool, MaxRows), th \in ths :
       \E fv \in {Null} \cup Scorable(places) :
         /\ engine' = e
         /\ threshold' = th
         /\ data' = MakeData(places)
         /\ failVal' = fv
         /\ validated_data' = InitResults(data')
  /\ unique_fuzzy' = <<>>
  /\ fuzzy_results' = EmptyMap
  /\ i' = 0
  /\ progress' = <<>>
  /\ scored' = <<>>
  /\ pc' = first
  /\ UNCHANGED << source, ref_data, ref_set, ref_list, normVars, callVars, appVars >>

Call(e, first) == CallWith(e, first, PlacePool, Thresholds)

CallOptimized == Call("optimized", "exact")

CallRowwise == Call("rowwise", "rows")

\* The caller's DataFrame without a TEMPAT_LAHIR column
MakeDataNoPlace(n) == [k \in 1..n |-> [ID |-> k]]

\* data['TEMPAT_LAHIR'] exists (a row set without rows is taken to have it)
HasPlaceColumn(d) == \A k \in DOMAIN d : "TEMPAT_LAHIR" \in DOMAIN d[k]

\* A call that goes on with every place missing and returns the augmented rows
KeyErrorCallLenient(e) ==
  /\ pc = "ready"
  /\ \E n \in 1..MaxRows, th \in Thresholds :
       /\ engine' = e
       /\ threshold' = th
       /\ data' = MakeDataNoPlace(n)
       /\ validated_data' =
            InitResults([k \in 1..n |-> [ID |-> k, TEMPAT_LAHIR |-> Null]])
  /\ failVal' = Null
  /\ unique_fuzzy' = <<>>
  /\ fuzzy_results' = EmptyMap
  /\ i' = 0
  /\ progress' = <<One>>
  /\ scored' = <<>>
  /\ pc' = "returned"
  /\ UNCHANGED << source, ref_data, ref_set, ref_list, normVars, callVars, appVars >>

\* A call with a row set that has no TEMPAT_LAHIR column: line 89 (220) copies
\* the rows, line 90 (223) raises KeyError on validated_data['TEMPAT_LAHIR']
KeyErrorCall(e) ==
  /\ pc = "ready"
  /\ \E n \in 1..MaxRows, th \in Thresholds :
       /\ engine' = e
       /\ threshold' = th
       /\ data' = MakeDataNoPlace(n)
       /\ validated_data' = data'
  /\ failVal' = Null
  /\ unique_fuzzy' = <<>>
  /\ fuzzy_results' = EmptyMap
  /\ i' = 0
  /\ progress' = <<>>
  /\ scored' = <<>>
  /\ pc' = "keyerror"
  /\ UNCHANGED << source, ref_data, ref_set, ref_list, normVars, callVars, appVars >>

KeyErrorOptimized == KeyErrorCall("optimized")

KeyErrorRowwise == KeyErrorCall("rowwise")

(* validate_tempat_lahir_optimized *)

\* Lines 98-116: exact matches are set; no row left for approximate matching:
\* the call returns
OptExactReturn ==
  /\ pc = "exact"
  /\ FuzzyValues(validated_data, ref_set) = <<>>
  /\ validated_data' = SetExactMatches(validated_data, ref_data, ref_set)
  /\ pc' = "returned"
  /\ UNCHANGED << source, ref_data, ref_set, ref_list, engine, threshold, data,
                  failVal, unique_fuzzy, fuzzy_results, i, progress, scored,
                  normVars, callVars, appVars >>

\* Lines 98-120: exact matches are set, the distinct other values are collected
OptExactContinue ==
  /\ pc = "exact"
  /\ FuzzyValues(validated_data, ref_set) # <<>>
  /\ validated_data' = SetExactMatches(validated_data, ref_data, ref_set)
  /\ unique_fuzzy' = Unique(FuzzyValues(validated_data, ref_set))
  /\ fuzzy_results' = EmptyMap
  /\ i' = 0
  /\ pc' = "fuzzy"
  /\ UNCHANGED << source, ref_data, ref_set, ref_list, engine, threshold, data,
                  failVal, progress, scored, normVars, callVars, appVars >>

\* Lines 123-125: a missing or empty value is skipped, callback included
OptFuzzySkip ==
  /\ pc = "fuzzy"
  /\ i < Len(unique_fuzzy)
  /\ IsBlank(unique_fuzzy[i + 1])
  /\ i' = i + 1
  /\ UNCHANGED << source, ref_data, ref_set, ref_list, pc, engine, threshold,
                  data, failVal, validated_data, unique_fuzzy, fuzzy_results,
                  progress, scored, normVars, callVars, appVars >>

\* Lines 123-143: one distinct value is matched
OptFuzzyStep ==
  /\ pc = "fuzzy"
  /\ i < Len(unique_fuzzy)
  /\ ~IsBlank(unique_fuzzy[i + 1])
  /\ unique_fuzzy[i + 1] # failVal
  /\ LET temp_lahir == unique_fuzzy[i + 1]
         result == extractOne(temp_lahir, ref_list)
     IN /\ scored' = Append(scored, temp_lahir)
        /\ fuzzy_results' =
             IF Accepted(result, threshold)
               THEN (temp_lahir :> FuzzyEntry(result, ExactMatchMap(ref_data)))
                      @@ fuzzy_results
               ELSE fuzzy_results
  /\ progress' = IF i % ReportEveryOptimized = 0
                   THEN Append(progress, Fraction(i, Len(unique_fuzzy)))
                   ELSE progress
  /\ i' = i + 1
  /\ UNCHANGED << source, ref_data, ref_set, ref_list, pc, engine, threshold,
                  data, failVal, validated_data, unique_fuzzy, normVars, callVars, appVars >>

\* Line 127 raises: nothing in the function catches it
OptFuzzyRaise ==
  /\ pc = "fuzzy"
  /\ i < Len(unique_fuzzy)
  /\ ~IsBlank(unique_fuzzy[i + 1])
  /\ unique_fuzzy[i + 1] = failVal
  /\ scored' = Append(scored, unique_fuzzy[i + 1])
  /\ pc' = "raised"
  /\ UNCHANGED << source, ref_data, ref_set, ref_list, engine, threshold, data,
                  failVal, validated_data, unique_fuzzy, fuzzy_results, i,
                  progress, normVars, callVars, appVars >>

\* Lines 145-156: results written back, final callback, return
OptApply ==
  /\ pc = "fuzzy"
  /\ i = Len(unique_fuzzy)
  /\ validated_data' = ApplyFuzzyResults(validated_data, fuzzy_results)
  /\ progress' = Append(progress, One)
  /\ pc' = "returned"
  /\ UNCHANGED << source, ref_data, ref_set, ref_list, engine, threshold, data,
                  failVal, unique_fuzzy, fuzzy_results, i, scored, normVars, callVars, appVars >>

(* validate_tempat_lahir *)

\* Lines 238-241: a missing or empty value is skipped, callback included
RowSkip ==
  /\ pc = "rows"
  /\ i < Len(validated_data)
  /\ IsBlank(validated_data[i + 1].tempat_lahir_normalized)
  /\ i' = i + 1
  /\ UNCHANGED << source, ref_data, ref_set, ref_list, pc, engine, threshold,
                  data, failVal, validated_data, unique_fuzzy, fuzzy_results,
                  progress, scored, normVars, callVars, appVars >>

\* Lines 243-250: an exact hit, then continue (no callback)
RowExact ==
  /\ pc = "rows"
  /\ i < Len(validated_data)
  /\ LET temp_lahir == validated_data[i + 1].tempat_lahir_normalized
     IN /\ ~IsBlank(temp_lahir)
        /\ temp_lahir \in ref_set
        /\ validated_data' =
             [validated_data EXCEPT
                ![i + 1] = ExactHit(@, MapGet(ExactMatchMap(ref_data), temp_lahir))]
  /\ i' = i + 1
  /\ UNCHANGED << source, ref_data, ref_set, ref_list, pc, engine, threshold,
                  data, failVal, unique_fuzzy, fuzzy_results, progress, scored,
                  normVars, callVars, appVars >>

\* Lines 252-272: approximate matching of one row
RowFuzzy ==
  /\ pc = "rows"
  /\ i < Len(validated_data)
  /\ LET temp_lahir == validated_data[i + 1].tempat_lahir_normalized
         result == extractOne(temp_lahir, ref_list)
     IN /\ ~IsBlank(temp_lahir)
        /\ temp_lahir \notin ref_set
        /\ temp_lahir # failVal
        /\ scored' = Append(scored, temp_lahir)
        /\ validated_data' =
             IF Accepted(result, threshold)
               THEN [validated_data EXCEPT
                       ![i + 1] = FuzzyHit(@, result, ExactMatchMap(ref_data))]
               ELSE validated_data
  /\ progress' = IF i % ReportEveryRowwise = 0
                   THEN Append(progress, Fraction(i, Len(validated_data)))
                   ELSE progress
  /\ i' = i + 1
  /\ UNCHANGED << source, ref_data, ref_set, ref_list, pc, engine, threshold,
                  data, failVal, unique_fuzzy, fuzzy_results, normVars, callVars, appVars >>

\* Line 253 raises: nothing in the function catches it
RowRaise ==
  /\ pc = "rows"
  /\ i < Len(validated_data)
  /\ LET temp_lahir == validated_data[i + 1].tempat_lahir_normalized
     IN /\ ~IsBlank(temp_lahir)
        /\ temp_lahir \notin ref_set
        /\ temp_lahir = failVal
        /\ scored' = Append(scored, temp_lahir)
  /\ pc' = "raised"
  /\ UNCHANGED << source, ref_data, ref_set, ref_list, engine, threshold, data,
                  failVal, validated_data, unique_fuzzy, fuzzy_results, i,
                  progress, normVars, callVars, appVars >>

\* Lines 274-278: final callback, return
RowFinish ==
  /\ pc = "rows"
  /\ i = Len(validated_data)
  /\ progress' = Append(progress, One)
  /\ pc' = "returned"
  /\ UNCHANGED << source, ref_data, ref_set, ref_list, engine, threshold, data,
                  failVal, validated_data, unique_fuzzy, fuzzy_results, i,
                  scored, normVars, callVars, appVars >>

Next ==
  \/ LoadReferenceData
  \/ LoadFails
  \/ CallOptimized
  \/ CallRowwise
  \/ KeyErrorOptimized
  \/ KeyErrorRowwise
  \/ OptExactReturn
  \/ OptExactContinue
  \/ OptFuzzySkip
  \/ OptFuzzyStep
  \/ OptFuzzyRaise
  \/ OptApply
  \/ RowSkip
  \/ RowExact
  \/ RowFuzzy
  \/ RowRaise
  \/ RowFinish

Spec == Init /\ [][Next]_vars

(* ---------------------------------------------------------------------- *)
(* normalize_tempat_lahir alone, applied to a string and then to its result *)
(* ---------------------------------------------------------------------- *)

\* Words the strings handed to the normalizer are made of: three of the
\* prefixes (without the space), an alias key, plain words, digits, a
\* lower-case word with a digit and punctuation, and a word with an underscore
WordPool ==
  { <<"D", "E", "S", "A">>, <<"K", "E", "C">>, <<"K", "O", "T", "A">>,
    <<"J", "K", "T">>, <<"B", "A", "R", "U">>, <<"X">>, <<"5", "0">>,
    <<"b", "1", "!">>, <<"a", "_", "b">> }

NormInputs ==
  {Null} \cup {JoinTokens(ws) : ws \in SeqsUpTo(WordPool, MaxWords) \ {<<>>}}

MainIdle ==
  /\ source = [readable |-> FALSE, columns |-> {}, rows |-> <<>>] /\ ref_data = <<>> /\ ref_set = {} /\ ref_list = <<>>
  /\ pc = "off"
  /\ engine = "none" /\ threshold = 0 /\ data = <<>> /\ failVal = Null
  /\ validated_data = <<>> /\ unique_fuzzy = <<>> /\ fuzzy_results = EmptyMap
  /\ i = 0 /\ progress = <<>> /\ scored = <<>>

InitNorm ==
  /\ nOrig \in NormInputs
  /\ nArg = nOrig
  /\ nPc = "call"
  /\ nCall = 1
  /\ nClean = Null /\ nStripped = Null /\ nOut = Null /\ nFirst = Null
  /\ MainIdle /\ CallIdle /\ AppIdle

\* Lines 17-18: a missing value is returned as it is
NormNull ==
  /\ nPc = "call"
  /\ nArg = Null
  /\ nOut' = nArg
  /\ nPc' = "ret"
  /\ UNCHANGED << nOrig, nArg, nCall, nClean, nStripped, nFirst, mainVars, callVars, appVars >>

\* Lines 20-28
NormClean ==
  /\ nPc = "call"
  /\ nArg # Null
  /\ nClean' = CleanName(nArg)
  /\ nPc' = "cleaned"
  /\ UNCHANGED << nOrig, nArg, nCall, nStripped, nOut, nFirst, mainVars, callVars, appVars >>

\* Lines 30-47
NormPrefix ==
  /\ nPc = "cleaned"
  /\ nStripped' = StripPrefixes(nClean)
  /\ nPc' = "stripped"
  /\ UNCHANGED << nOrig, nArg, nCall, nClean, nOut, nFirst, mainVars, callVars, appVars >>

\* Lines 49-81
NormSpecial ==
  /\ nPc = "stripped"
  /\ nOut' = ApplySpecialCases(nStripped)
  /\ nPc' = "ret"
  /\ UNCHANGED << nOrig, nArg, nCall, nClean, nStripped, nFirst, mainVars, callVars, appVars >>

\* The caller hands the result to the normalizer once more
NormAgain ==
  /\ nPc = "ret"
  /\ nCall = 1
  /\ nFirst' = nOut
  /\ nArg' = nOut
  /\ nCall' = 2
  /\ nPc' = "call"
  /\ UNCHANGED << nOrig, nClean, nStripped, nOut, mainVars, callVars, appVars >>

NextNorm ==
  \/ NormNull
  \/ NormClean
  \/ NormPrefix
  \/ NormSpecial
  \/ NormAgain

SpecNorm == InitNorm /\ [][NextNorm]_vars

(* ---------------------------------------------------------------------- *)
(* Properties                                                              *)
(* ---------------------------------------------------------------------- *)

Returned == pc = "returned"

Rows == DOMAIN validated_data

Norm(k) == validated_data[k].tempat_lahir_normalized

\* The value of row k is neither missing nor empty nor a gazetteer key
NeedsFuzzy(k) == ~IsBlank(Norm(k)) /\ Norm(k) \notin ref_set

\* The best approximate similarity of a value over the whole candidate set
BestSimilarity(v) == BestScore(v, ref_list)

Occurrences(s, v) == Cardinality({k \in DOMAIN s : s[k] = v})

\* The row carries no match
Unmatched(row) ==
  /\ row.valid_tempat_lahir = FALSE
  /\ row.koreksi_tempat_lahir = Null
  /\ row.level_administrasi = Null

\* C1: a returned row whose value needs approximate matching and whose best
\* similarity over the candidate set is below the threshold is invalid, has no
\* corrected name, and has that best similarity as its confidence score.
C1_NearMissScoreReported ==
  Returned =>
    \A k \in Rows :
      (NeedsFuzzy(k) /\ ref_list # <<>>
         /\ BestSimilarity(Norm(k)) < Pct(threshold))
        => /\ validated_data[k].valid_tempat_lahir = FALSE
           /\ validated_data[k].koreksi_tempat_lahir = Null
           /\ validated_data[k].confidence_score = BestSimilarity(Norm(k))

\* What a run in which no similarity computation fails gives a row
ResultWithoutFailure(row) ==
  LET v == row.tempat_lahir_normalized
      map == ExactMatchMap(ref_data)
  IN IF IsBlank(v) THEN Unmatched(row) /\ row.confidence_score = 0
     ELSE IF v \in ref_set
       THEN /\ row.valid_tempat_lahir = TRUE
            /\ row.confidence_score = Pct(100)
            /\ row.koreksi_tempat_lahir = map[v][1]
            /\ row.level_administrasi = map[v][2]
     ELSE IF ref_list # <<>> /\ BestSimilarity(v) >= Pct(threshold)
       THEN /\ row.valid_tempat_lahir = TRUE
            /\ row.confidence_score = BestSimilarity(v)
            /\ row.koreksi_tempat_lahir = map[extractOne(v, ref_list)[1]][1]
            /\ row.level_administrasi = map[extractOne(v, ref_list)[1]][2]
     ELSE Unmatched(row)

\* C2: a similarity computation that raises for one distinct value does not end
\* the run: the run never ends in the exception, and when it has returned the
\* rows of that value are invalid with score 0 and every other row has the
\* result of a run without the failure.
C2_FailureIsolated ==
  /\ pc # "raised"
  /\ (Returned /\ Occurrences(scored, failVal) > 0) =>
       \A k \in Rows :
         IF Norm(k) = failVal
           THEN /\ validated_data[k].valid_tempat_lahir = FALSE
                /\ validated_data[k].confidence_score = 0
           ELSE ResultWithoutFailure(validated_data[k])

\* C3: a call that has returned has invoked the callback with 1.0 exactly once,
\* as its last invocation.
C3_CompletionNotified ==
  Returned =>
    /\ progress # <<>>
    /\ progress[Len(progress)] = One
    /\ Occurrences(progress, One) = 1

\* The result fields the dedup claim compares
SameResult(r1, r2) ==
  /\ r1.koreksi_tempat_lahir = r2.koreksi_tempat_lahir
  /\ r1.confidence_score = r2.confidence_score
  /\ r1.level_administrasi = r2.level_administrasi
  /\ r1.valid_tempat_lahir = r2.valid_tempat_lahir

\* C4: in a run of the optimized engine no value is matched approximately more
\* than once, and when the run has returned every value that needs approximate
\* matching was matched exactly once and all rows sharing it have the same
\* corrected name, score, level and validity.
C4_DedupCorrect ==
  engine = "optimized" =>
    /\ \A k \in DOMAIN scored : Occurrences(scored, scored[k]) = 1
    /\ Returned =>
         \A k \in Rows :
           NeedsFuzzy(k) =>
             /\ Occurrences(scored, Norm(k)) = 1
             /\ \A h \in Rows :
                  Norm(h) = Norm(k) =>
                    SameResult(validated_data[h], validated_data[k])

\* C4 witness: the optimized engine has returned a batch in which two rows share
\* one value that needed approximate matching and was matched.
C4_Witness ==
  /\ engine = "optimized" /\ Returned
  /\ \E k, h \in Rows :
       /\ k # h /\ Norm(k) = Norm(h) /\ NeedsFuzzy(k)
       /\ validated_data[k].valid_tempat_lahir = TRUE

\* C5: the scorer is never invoked for a gazetteer key, and a returned row whose
\* non-empty value is a gazetteer key is valid with score 100 and the canonical
\* name and level the lookup stores for that key.
C5_ExactMatchPriority ==
  /\ \A k \in DOMAIN scored : scored[k] \notin ref_set
  /\ Returned =>
       \A k \in Rows :
         (~IsBlank(Norm(k)) /\ Norm(k) \in ref_set) =>
           /\ validated_data[k].valid_tempat_lahir = TRUE
           /\ validated_data[k].confidence_score = Pct(100)
           /\ validated_data[k].koreksi_tempat_lahir
                = ExactMatchMap(ref_data)[Norm(k)][1]
           /\ validated_data[k].level_administrasi
                = ExactMatchMap(ref_data)[Norm(k)][2]

\* C5 witness: a returned batch holds a row that is an exact hit of a name
\* shared by several gazetteer entries, and another row went to the scorer.
C5_Witness ==
  /\ Returned
  /\ scored # <<>>
  /\ \E k \in Rows :
       /\ ~IsBlank(Norm(k)) /\ Norm(k) \in ref_set
       /\ Cardinality({j \in DOMAIN ref_data :
                         ref_data[j].nama_normalized = Norm(k)}) > 1

\* C6: a returned row whose value needs approximate matching is valid exactly
\* when the highest similarity over the candidate set is at least the
\* threshold: valid at threshold, invalid at threshold - 1.
C6_ThresholdInclusive ==
  Returned =>
    \A k \in Rows :
      NeedsFuzzy(k) =>
        /\ validated_data[k].valid_tempat_lahir
             <=> (ref_list # <<>> /\ BestSimilarity(Norm(k)) >= Pct(threshold))
        /\ (ref_list # <<>> /\ BestSimilarity(Norm(k)) = Pct(threshold))
             => validated_data[k].valid_tempat_lahir
        /\ (ref_list # <<>> /\ BestSimilarity(Norm(k)) = Pct(threshold - 1))
             => ~validated_data[k].valid_tempat_lahir

\* C6 witness: a returned row whose best similarity is exactly the threshold.
C6_Witness ==
  /\ Returned
  /\ \E k \in Rows :
       /\ NeedsFuzzy(k) /\ ref_list # <<>>
       /\ BestSimilarity(Norm(k)) = Pct(threshold)
       /\ validated_data[k].valid_tempat_lahir

\* The other side of the boundary is reached as well: a returned row whose best
\* similarity is exactly threshold - 1.
C6_BelowBoundaryReached ==
  /\ Returned
  /\ \E k \in Rows :
       /\ NeedsFuzzy(k) /\ ref_list # <<>>
       /\ BestSimilarity(Norm(k)) = Pct(threshold - 1)
       /\ ~validated_data[k].valid_tempat_lahir

\* C7: a returned row whose place is missing, or whose normalized place is the
\* empty string, is invalid with score 0 and neither corrected name nor level,
\* whatever the gazetteer index holds.
C7_NullHandling ==
  Returned =>
    \A k \in Rows :
      (validated_data[k].TEMPAT_LAHIR = Null \/ IsBlank(Norm(k))) =>
        /\ Unmatched(validated_data[k])
        /\ validated_data[k].confidence_score = 0

\* C8: a call that has returned returns the caller's rows in the caller's
\* order, every original column unchanged, every row with the five result
\* columns.
C8_OutputShape ==
  Returned =>
    /\ Len(validated_data) = Len(data)
    /\ \A k \in Rows :
         /\ ResultColumns \subseteq DOMAIN validated_data[k]
         /\ \A c \in DOMAIN data[k] : validated_data[k][c] = data[k][c]

\* C8 witness: the optimized engine returned early (no callback, no scoring)
\* a batch of two rows, one missing-free exact hit each.
C8_Witness ==
  /\ Returned /\ engine = "optimized" /\ progress = <<>>
  /\ Len(validated_data) = 2
  /\ \A k \in Rows : validated_data[k].valid_tempat_lahir = TRUE

\* At most the first matching prefix of the ordered list is gone from name
AtMostFirstPrefixStripped(before, after) ==
  \/ /\ after = before
     /\ \A k \in DOMAIN prefixes : ~StartsWith(before, prefixes[k])
  \/ \E k \in DOMAIN prefixes :
       /\ StartsWith(before, prefixes[k])
       /\ \A h \in 1..(k - 1) : ~StartsWith(before, prefixes[h])
       /\ after = SubSeq(before, Len(prefixes[k]) + 1, Len(before))

\* C9: prefix stripping removes at most the first matching prefix of the
\* ordered list; a name that begins with two listed prefixes loses only the
\* first one.
C9_AtMostOnePrefix ==
  (nPc \in {"stripped", "ret"} /\ nArg # Null) =>
    AtMostFirstPrefixStripped(nClean, nStripped)

\* Upper-case letters and single spaces only
IsCanonicalForm(s) ==
  /\ s # Null
  /\ \A k \in DOMAIN s : s[k] \in UpperChars \cup {" "}

\* C10: for a string that is already upper-case and free of punctuation and
\* digits, normalizing the result of the normalizer gives that result again.
C10_Idempotent ==
  (nPc = "ret" /\ nCall = 2 /\ IsCanonicalForm(nOrig)) => nOut = nFirst

IsAliasKey(name) == \E k \in DOMAIN special_cases : special_cases[k][1] = name

\* C11: the alias table replaces the name only when the whole name after prefix
\* stripping is an alias key, by the value of that key, and assigns at most
\* once per call; a name that merely contains a key is returned as it is.
C11_AliasWholeStringOnce ==
  (nPc = "ret" /\ nArg # Null) =>
    /\ IsAliasKey(nStripped) =>
         \E k \in DOMAIN special_cases :
           special_cases[k][1] = nStripped /\ nOut = special_cases[k][2]
    /\ ~IsAliasKey(nStripped) => nOut = nStripped
    /\ SpecialHits(nStripped) <= 1

\* C11 witness: a call whose stripped name is an alias key has returned the
\* replacement, with one assignment.
C11_Witness ==
  /\ nPc = "ret" /\ nArg # Null
  /\ IsAliasKey(nStripped) /\ nOut # nStripped /\ SpecialHits(nStripped) = 1

\* A key inside a longer name is left alone as well
C11_SubstringReached ==
  /\ nPc = "ret" /\ nArg # Null /\ ~IsAliasKey(nStripped)
  /\ \E k \in DOMAIN special_cases : StartsWith(nStripped, special_cases[k][1])

\* C12: the result for a non-null input holds upper-case letters and single
\* spaces only: no digit, no underscore or other non-letter, no space at
\* either end, no two spaces in a row.
C12_CanonicalCharacters ==
  (nPc = "ret" /\ nArg # Null) =>
    /\ \A k \in DOMAIN nOut : nOut[k] \in UpperChars \cup {" "}
    /\ nOut # <<>> => (nOut[1] # " " /\ nOut[Len(nOut)] # " ")
    /\ \A k \in 1..(Len(nOut) - 1) : ~(nOut[k] = " " /\ nOut[k + 1] = " ")

(* ---------------------------------------------------------------------- *)
(* The Jakarta scenario: one province, the default threshold               *)
(* ---------------------------------------------------------------------- *)

ScenarioPlace == <<"D", "e", "s", "a", " ", "J", "a", "k", "a", "r", "t", "a", " ", "P", "u", "s", "a", "t", " ", "1", "2", "3", "!">>

Jakarta == <<"J", "a", "k", "a", "r", "t", "a">>

JAKARTA == <<"J", "A", "K", "A", "R", "T", "A">>

\* The gazetteer of the scenario: the province "Jakarta" and nothing else
ScenarioSource ==
  [readable |-> TRUE, columns |-> RequiredColumns,
   rows |-> << [NAMOBJ |-> Null, WADMKD |-> Null, WADMKC |-> Null,
                WADMKK |-> Null, WADMPR |-> Jakarta] >>]

\* Place cells of the scenario: the scenario's place, a misspelling, a place
\* far from every candidate, a missing cell
ScenarioPool == { ScenarioPlace, <<"J", "a", "k", "r", "t", "a">>, <<"B", "a", "l", "i">>, Null }

\* threshold=85, the default of both engines (lines 85 and 205)
DefaultThreshold == 85

InitScenario ==
  /\ source = ScenarioSource
  /\ ref_data = <<>> /\ ref_set = {} /\ ref_list = <<>>
  /\ pc = "idle"
  /\ engine = "none" /\ threshold = 0 /\ data = <<>> /\ failVal = Null
  /\ validated_data = <<>> /\ unique_fuzzy = <<>> /\ fuzzy_results = EmptyMap
  /\ i = 0 /\ progress = <<>> /\ scored = <<>>
  /\ NormIdle /\ CallIdle /\ AppIdle

ScenarioCallOptimized ==
  CallWith("optimized", "exact", ScenarioPool, {DefaultThreshold})

ScenarioCallRowwise ==
  CallWith("rowwise", "rows", ScenarioPool, {DefaultThreshold})

NextScenario ==
  \/ LoadReferenceData
  \/ ScenarioCallOptimized
  \/ ScenarioCallRowwise
  \/ OptExactReturn
  \/ OptExactContinue
  \/ OptFuzzySkip
  \/ OptFuzzyStep
  \/ OptFuzzyRaise
  \/ OptApply
  \/ RowSkip
  \/ RowExact
  \/ RowFuzzy
  \/ RowRaise
  \/ RowFinish

SpecScenario == InitScenario /\ [][NextScenario]_vars

\* C13: "Desa Jakarta Pusat 123!" is normalized to "JAKARTA", and against a
\* gazetteer whose only entry with that normalized name is the province
\* "Jakarta" a returned row with that place is valid with score 100, corrected
\* name "Jakarta" and level provinsi.
C13_JakartaScenario ==
  \A k \in Rows :
    validated_data[k].TEMPAT_LAHIR = ScenarioPlace =>
      /\ Norm(k) = JAKARTA
      /\ Returned =>
           /\ validated_data[k].valid_tempat_lahir = TRUE
           /\ validated_data[k].confidence_score = Pct(100)
           /\ validated_data[k].koreksi_tempat_lahir = Jakarta
           /\ validated_data[k].level_administrasi = "provinsi"

\* C13 witness: a returned batch holds the scenario's row, and the gazetteer has
\* exactly one entry normalizing to "JAKARTA".
C13_Witness ==
  /\ Returned
  /\ \E k \in Rows : validated_data[k].TEMPAT_LAHIR = ScenarioPlace
  /\ Cardinality({j \in DOMAIN ref_data :
                    ref_data[j].nama_normalized = JAKARTA}) = 1

\* Position of a level in the concatenation of line 195
LevelRank(level) ==
  CASE level = "desa" -> 1
    [] level = "kecamatan" -> 2
    [] level = "kabupaten" -> 3
    [] level = "provinsi" -> 4

\* Entry j of the reference table is the last of its normalized name in the
\* order village, district, regency, province, source order within a level
IsLastOfName(j) ==
  \A h \in DOMAIN ref_data :
    ref_data[h].nama_normalized = ref_data[j].nama_normalized =>
      /\ LevelRank(ref_data[h].level) <= LevelRank(ref_data[j].level)
      /\ h <= j

\* The gazetteer key a valid row was matched to
MatchedKey(k) ==
  IF Norm(k) \in ref_set THEN Norm(k) ELSE extractOne(Norm(k), ref_list)[1]

\* C14: the reference table is in the order village, district, regency,
\* province, and every valid returned row reports the canonical name and level
\* of the entry that is last in that order among the entries sharing the
\* normalized name it matched.
C14_LastWriteWins ==
  /\ \A j, h \in DOMAIN ref_data :
       j <= h => LevelRank(ref_data[j].level) <= LevelRank(ref_data[h].level)
  /\ Returned =>
       \A k \in Rows :
         validated_data[k].valid_tempat_lahir =>
           \E j \in DOMAIN ref_data :
             /\ ref_data[j].nama_normalized = MatchedKey(k)
             /\ IsLastOfName(j)
             /\ validated_data[k].koreksi_tempat_lahir = ref_data[j].nama
             /\ validated_data[k].level_administrasi = ref_data[j].level

\* C14 witness: a returned valid row matched a name that two gazetteer entries
\* with different canonical names share.
C14_Witness ==
  /\ Returned
  /\ \E k \in Rows :
       /\ validated_data[k].valid_tempat_lahir
       /\ \E j, h \in DOMAIN ref_data :
            /\ ref_data[j].nama_normalized = MatchedKey(k)
            /\ ref_data[h].nama_normalized = MatchedKey(k)
            /\ ref_data[j].nama # ref_data[h].nama

\* C15: a call whose row set has no TEMPAT_LAHIR column ends in the exception
\* at once: no value has been normalized or matched, the callback has not been
\* invoked, and no row set, augmented or not, is returned.
C15_InputShapeFailFast ==
  ~HasPlaceColumn(data) =>
    /\ pc = "keyerror"
    /\ progress = <<>>
    /\ scored = <<>>
    /\ \A k \in Rows : DOMAIN validated_data[k] \cap ResultColumns = {}

\* C15 witness: a call with two rows and no TEMPAT_LAHIR column has raised.
C15_Witness ==
  pc = "keyerror" /\ Len(data) = 2 /\ ~HasPlaceColumn(data)

\* C16: load_reference_data on a source that cannot be read or lacks one of
\* the columns NAMOBJ, WADMKD, WADMKC, WADMKK, WADMPR fails and returns neither
\* table nor candidate set; an index exists only for a readable source with
\* all five columns.
C16_LoadAllOrNothing ==
  /\ pc = "load_failed" => (ref_data = <<>> /\ ref_set = {} /\ ref_list = <<>>)
  /\ ~(source.readable /\ RequiredColumns \subseteq source.columns)
       => (pc \in {"idle", "load_failed"} /\ ref_data = <<>> /\ ref_set = {})

\* C16 witness: loading failed on a readable table with rows that lacks only
\* the province column, so three levels could have been built.
C16_Witness ==
  /\ pc = "load_failed"
  /\ source.readable /\ source.rows # <<>>
  /\ source.columns = RequiredColumns \ {"WADMPR"}

(* ---------------------------------------------------------------------- *)
(* validators.py. A date cell is <<type, value>>: a Timestamp or a text,   *)
(* lying in the past or the future of pd.Timestamp.now(), or a text that   *)
(* pd.to_datetime cannot parse.                                            *)
(* ---------------------------------------------------------------------- *)

\* str.isdigit() on text of the characters modelled here
IsDigitStr(v) == v # <<>> /\ \A k \in DOMAIN v : v[k] \in DigitChars

\* v[-4:]
LastFour(v) == SubSeq(v, IF Len(v) > 4 THEN Len(v) - 3 ELSE 1, Len(v))

Zeros == <<"0", "0", "0", "0">>

\* str(value): a missing cell prints as 'nan'
StrOf(v) == IF v = Null THEN <<"n", "a", "n">> ELSE v

\* validate_kk, lines 5-32 (KK_NO is read with dtype str: text or missing)
validate_kk(kk_no) ==
  IF kk_no = Null THEN FALSE
  ELSE IsDigitStr(kk_no) /\ Len(kk_no) = 16 /\ LastFour(kk_no) # Zeros

\* validate_nik, lines 35-62
validate_nik(nik) ==
  IF nik = Null THEN FALSE
  ELSE IsDigitStr(nik) /\ Len(nik) = 16 /\ LastFour(nik) # Zeros

\* validate_custname, lines 65-89
validate_custname(custname) ==
  IF custname = Null \/ custname = <<>> THEN FALSE
  ELSE \A k \in DOMAIN custname : custname[k] \notin DigitChars

\* Lines 110: valid_values
valid_values ==
  { <<"L", "A", "K", "I", "-", "L", "A", "K", "I">>,
    <<"L", "A", "K", "I", " ", "-", " ", "L", "A", "K", "I">>,
    <<"L", "A", "K", "I", " ", "L", "A", "K", "I">>,
    <<"P", "E", "R", "E", "M", "P", "U", "A", "N">> }

\* validate_jenis_kelamin, lines 92-115
validate_jenis_kelamin(jenis_kelamin) ==
  IF jenis_kelamin = Null \/ jenis_kelamin = <<>> THEN FALSE
  ELSE jenis_kelamin \in valid_values

\* validate_tanggal_lahir, lines 118-156
validate_tanggal_lahir(tanggal_lahir) ==
  IF tanggal_lahir = Null THEN FALSE
  ELSE IF tanggal_lahir[1] = "Timestamp" THEN tanggal_lahir[2] # "future"
  ELSE tanggal_lahir[2] = "past"

\* Lines 172-180 (184-191): the note of a KK_NO or NIK that is not valid
NumberNotes(field, value, valid) ==
  LET text == StrOf(value)
  IN IF valid THEN <<>>
     ELSE IF ~IsDigitStr(text) THEN << <<field, "non-digit">> >>
     ELSE IF Len(text) # 16 THEN << <<field, "panjang">> >>
     ELSE IF LastFour(text) = Zeros THEN << <<field, "0000">> >>
     ELSE <<>>

\* Lines 194-199
NameNotes(value, valid) ==
  IF valid THEN <<>>
  ELSE IF \E k \in DOMAIN StrOf(value) : StrOf(value)[k] \in DigitChars
    THEN << <<"CUSTNAME", "mengandung angka">> >>
    ELSE << <<"CUSTNAME", "bukan string valid">> >>

\* Lines 210-220 for a missing cell or a Timestamp
DateNotes(dob, valid) ==
  IF valid THEN <<>>
  ELSE IF dob = Null THEN << <<"TANGGAL_LAHIR", "kosong">> >>
  ELSE IF dob[2] = "future" THEN << <<"TANGGAL_LAHIR", "masa depan">> >>
  ELSE << <<"TANGGAL_LAHIR", "tidak valid">> >>

\* Line 215: dob > now raises TypeError when dob is a text
NotesRaise(row) ==
  /\ ~row.valid_tanggal_lahir
  /\ row.TANGGAL_LAHIR # Null
  /\ row.TANGGAL_LAHIR[1] = "str"

\* generate_validation_notes, lines 159-221, for a row on which it does not
\* raise; the entries are kept as the list that "; ".join receives, None is
\* returned for the empty list
generate_validation_notes(row) ==
  LET notes ==
        NumberNotes("KK_NO", row.KK_NO, row.valid_kk_no)
          \o NumberNotes("NIK", row.NIK, row.valid_nik)
          \o NameNotes(row.CUSTNAME, row.valid_custname)
          \o (IF row.valid_jenis_kelamin THEN <<>>
                ELSE << <<"JENIS_KELAMIN", "tidak valid">> >>)
          \o (IF row.valid_tempat_lahir THEN <<>>
                ELSE << <<"TEMPAT_LAHIR", "tidak ditemukan">> >>)
          \o DateNotes(row.TANGGAL_LAHIR, row.valid_tanggal_lahir)
  IN IF notes = <<>> THEN Null ELSE notes

(* ---------------------------------------------------------------------- *)
(* app.py: the script that loads the gazetteer, reads the uploaded file    *)
(* and runs the validation steps.                                          *)
(* ---------------------------------------------------------------------- *)

\* The gazetteer files the app can find: tables of at most one row, complete
\* or lacking a column, and a file that cannot be read
AppSources == {s \in Sources : Len(s.rows) <= 1}

\* Line 60: astype(str) turns a missing cell into 'nan', str.strip() trims
AstypeStrStrip(v) == Strip(IF v = Null THEN <<"n", "a", "n">> ELSE v)

ValidKK == <<"3", "2", "0", "1", "0", "1", "0", "1", "0", "1", "0", "1", "0", "0", "0", "1">>

Past == <<"Timestamp", "past">>

\* Rows of the uploaded sheet: a valid one; one with an empty place cell; two
\* with several invalid fields; one whose date cell is a text that cannot be
\* parsed and whose place is a space
AppRowPool ==
  { [KK_NO |-> ValidKK, NIK |-> ValidKK, CUSTNAME |-> <<"B", "u", "d", "i">>,
     JENIS_KELAMIN |-> <<"P", "E", "R", "E", "M", "P", "U", "A", "N">>,
     TEMPAT_LAHIR |-> <<"a", "b">>, TANGGAL_LAHIR |-> Past],
    [KK_NO |-> ValidKK, NIK |-> ValidKK, CUSTNAME |-> <<"B", "u", "d", "i">>,
     JENIS_KELAMIN |-> <<"P", "E", "R", "E", "M", "P", "U", "A", "N">>,
     TEMPAT_LAHIR |-> Null, TANGGAL_LAHIR |-> Past],
    [KK_NO |-> Null, NIK |-> <<"1", "2", "a">>, CUSTNAME |-> <<"B", "1">>,
     JENIS_KELAMIN |-> <<"L">>,
     TEMPAT_LAHIR |-> <<"a", "c">>, TANGGAL_LAHIR |-> Null],
    [KK_NO |-> <<"1", "2", "3">>,
     NIK |-> <<"3", "2", "0", "1", "0", "1", "0", "1", "0", "1", "0", "1", "0", "0", "0", "0">>,
     CUSTNAME |-> Null, JENIS_KELAMIN |-> Null,
     TEMPAT_LAHIR |-> <<"a", "c">>, TANGGAL_LAHIR |-> <<"Timestamp", "future">>],
    [KK_NO |-> ValidKK, NIK |-> ValidKK, CUSTNAME |-> <<"B", "u", "d", "i">>,
     JENIS_KELAMIN |-> <<"P", "E", "R", "E", "M", "P", "U", "A", "N">>,
     TEMPAT_LAHIR |-> <<" ">>, TANGGAL_LAHIR |-> <<"str", "unparseable">>] }

\* Lines 46-60: KK_NO and NIK are read as text, the three text columns are
\* converted and trimmed, the date column is left as read
ReadRow(raw) ==
  [KK_NO |-> raw.KK_NO, NIK |-> raw.NIK,
   CUSTNAME |-> AstypeStrStrip(raw.CUSTNAME),
   JENIS_KELAMIN |-> AstypeStrStrip(raw.JENIS_KELAMIN),
   TEMPAT_LAHIR |-> AstypeStrStrip(raw.TEMPAT_LAHIR),
   TANGGAL_LAHIR |-> raw.TANGGAL_LAHIR]

\* The column a step adds (lines 106, 115, 124, 133, 177)
StepColumn(step) ==
  CASE step = "kk" -> "valid_kk_no"
    [] step = "nik" -> "valid_nik"
    [] step = "custname" -> "valid_custname"
    [] step = "jenis_kelamin" -> "valid_jenis_kelamin"
    [] step = "tanggal_lahir" -> "valid_tanggal_lahir"

\* data[column].apply(validator) for one row
StepVerdict(step, row) ==
  CASE step = "kk" -> validate_kk(row.KK_NO)
    [] step = "nik" -> validate_nik(row.NIK)
    [] step = "custname" -> validate_custname(row.CUSTNAME)
    [] step = "jenis_kelamin" -> validate_jenis_kelamin(row.JENIS_KELAMIN)
    [] step = "tanggal_lahir" -> validate_tanggal_lahir(row.TANGGAL_LAHIR)

\* Lines 185-190
AllValid(row) ==
  /\ row.valid_kk_no /\ row.valid_nik /\ row.valid_custname
  /\ row.valid_jenis_kelamin /\ row.valid_tempat_lahir
  /\ row.valid_tanggal_lahir

\* Line 151: the row count above which the optimized engine is used
DispatchRows == 50000

\* Lines 154 and 159: threshold=85
AppThreshold == 85

\* Lines 103-137 and 175-181 in script order; the place step sits between
\* jenis_kelamin and tanggal_lahir
StepAfter(step) ==
  CASE step = "kk" -> "nik"
    [] step = "nik" -> "custname"
    [] step = "custname" -> "jenis_kelamin"
    [] step = "jenis_kelamin" -> "place"
    [] step = "tanggal_lahir" -> "finalize"

InitApp ==
  /\ source \in AppSources
  /\ ref_data = <<>> /\ ref_set = {} /\ ref_list = <<>>
  /\ pc = "idle"
  /\ engine = "none" /\ threshold = 0 /\ data = <<>> /\ failVal = Null
  /\ validated_data = <<>> /\ unique_fuzzy = <<>> /\ fuzzy_results = EmptyMap
  /\ i = 0 /\ progress = <<>> /\ scored = <<>>
  /\ NormIdle /\ CallIdle
  /\ app_pc = "start" /\ app_error = <<>> /\ app_steps = <<>> /\ app_file = <<>>

\* Lines 24-37: load_reference_data returned
AppLoadOk ==
  /\ app_pc = "start"
  /\ LoadOutcome(source).ok
  /\ ref_data' = LoadOutcome(source).ref_data
  /\ ref_set' = RefSet(ref_data')
  /\ ref_list' \in Orderings(ref_set')
  /\ pc' = "ready"
  /\ app_pc' = "loaded"
  /\ UNCHANGED << source, engine, threshold, data, failVal, validated_data,
                  unique_fuzzy, fuzzy_results, i, progress, scored, normVars,
                  callVars, app_error, app_steps, app_file >>

\* Lines 29-34, 37: load_reference_data raised; st.error shows the message,
\* (None, None) is returned and the script goes on to the uploader
AppLoadFail ==
  /\ app_pc = "start"
  /\ ~LoadOutcome(source).ok
  /\ ref_data' = Null
  /\ ref_set' = Null
  /\ pc' = "load_failed"
  /\ app_error' = Append(app_error, "load")
  /\ app_pc' = "loaded"
  /\ UNCHANGED << source, ref_list, engine, threshold, data, failVal,
                  validated_data, unique_fuzzy, fuzzy_results, i, progress,
                  scored, normVars, callVars, app_steps, app_file >>

\* Lines 40-62: a file is uploaded and read, the text columns are converted
AppUpload ==
  /\ app_pc = "loaded"
  /\ \E rows \in SeqsUpTo(AppRowPool, MaxRows) :
       /\ app_file' = rows
       /\ data' = [k \in DOMAIN rows |-> ReadRow(rows[k])]
  /\ app_pc' = "uploaded"
  /\ UNCHANGED << source, ref_data, ref_set, ref_list, pc, engine, threshold,
                  failVal, validated_data, unique_fuzzy, fuzzy_results, i,
                  progress, scored, normVars, callVars, app_error, app_steps >>

\* Line 89: the button is pressed
AppValidateClick ==
  /\ app_pc = "uploaded"
  /\ app_pc' = "kk"
  /\ UNCHANGED << mainVars, normVars, callVars, app_error, app_steps, app_file >>

\* Lines 103-137, 175-181: one of the steps KK, NIK, name, gender, date
AppStep ==
  /\ app_pc \in {"kk", "nik", "custname", "jenis_kelamin", "tanggal_lahir"}
  /\ app_steps' = Append(app_steps, app_pc)
  /\ data' = [k \in DOMAIN data |->
                SetCols(data[k], StepColumn(app_pc) :> StepVerdict(app_pc, data[k]))]
  /\ app_pc' = StepAfter(app_pc)
  /\ UNCHANGED << source, ref_data, ref_set, ref_list, pc, engine, threshold,
                  failVal, validated_data, unique_fuzzy, fuzzy_results, i,
                  progress, scored, normVars, callVars, app_error, app_file >>

\* Lines 139-162: the place step. With ref_data None the engine copies the
\* rows, normalizes them and raises TypeError on ref_data['nama_normalized']
\* (line 232, line 99), which the handler of line 440 reports. Row sets above
\* DispatchRows rows go to the optimized engine.
AppStartPlace ==
  /\ app_pc = "place"
  /\ app_steps' = Append(app_steps, "place")
  /\ engine' = IF Len(data) > DispatchRows THEN "optimized" ELSE "rowwise"
  /\ threshold' = AppThreshold
  /\ validated_data' = InitResults(data)
  /\ failVal' = Null
  /\ unique_fuzzy' = <<>>
  /\ fuzzy_results' = EmptyMap
  /\ i' = 0
  /\ progress' = <<>>
  /\ scored' = <<>>
  /\ IF ref_data = Null
       THEN /\ pc' = "raised"
            /\ app_error' = Append(app_error, "process")
            /\ app_pc' = "failed"
       ELSE /\ pc' = IF Len(data) > DispatchRows THEN "exact" ELSE "rows"
            /\ app_error' = app_error
            /\ app_pc' = "place_running"
  /\ UNCHANGED << source, ref_data, ref_set, ref_list, data, normVars, callVars,
                  app_file >>

\* Lines 164-171: the five result columns are copied into the uploaded frame
AppPlaceDone ==
  /\ app_pc = "place_running"
  /\ pc = "returned"
  /\ data' = [k \in DOMAIN data |->
                SetCols(data[k],
                        [c \in ResultColumns |-> validated_data[k][c]])]
  /\ app_pc' = "tanggal_lahir"
  /\ UNCHANGED << source, ref_data, ref_set, ref_list, pc, engine, threshold,
                  failVal, validated_data, unique_fuzzy, fuzzy_results, i,
                  progress, scored, normVars, callVars, app_error, app_steps, app_file >>

\* Lines 183-200: all_valid, then the notes row by row; an exception of
\* generate_validation_notes leaves the frame without the notes column and is
\* reported by the handler of line 440
AppFinalize ==
  /\ app_pc = "finalize"
  /\ LET verdicts == [k \in DOMAIN data |->
                       SetCols(data[k], "all_valid" :> AllValid(data[k]))]
     IN IF \E k \in DOMAIN verdicts : NotesRaise(verdicts[k])
          THEN /\ data' = verdicts
               /\ app_error' = Append(app_error, "process")
               /\ app_pc' = "failed"
          ELSE /\ data' = [k \in DOMAIN verdicts |->
                             SetCols(verdicts[k],
                                     "catatan_validasi" :>
                                       generate_validation_notes(verdicts[k]))]
               /\ app_error' = app_error
               /\ app_pc' = "done"
  /\ UNCHANGED << source, ref_data, ref_set, ref_list, pc, engine, threshold,
                  failVal, validated_data, unique_fuzzy, fuzzy_results, i,
                  progress, scored, normVars, callVars, app_steps, app_file >>

NextApp ==
  \/ AppLoadOk
  \/ AppLoadFail
  \/ AppUpload
  \/ AppValidateClick
  \/ AppStep
  \/ AppStartPlace
  \/ RowSkip
  \/ RowExact
  \/ RowFuzzy
  \/ RowFinish
  \/ AppPlaceDone
  \/ AppFinalize

SpecApp == InitApp /\ [][NextApp]_vars

\* C17: in the app a validation step (KK, NIK, name, gender, place, date) is
\* only ever started when the gazetteer index was loaded successfully; after a
\* failed load no step runs.
C17_LoadFailureBlocks ==
  app_steps # <<>> => (ref_data # Null /\ app_error = <<>>)

\* C20: in every place-validation run the app starts, the approximate scorer
\* is invoked at most once per distinct normalized value of the uploaded
\* batch, never once per row carrying it.
C20_ScoredOncePerValue ==
  app_pc # "start" =>
    \A k \in DOMAIN scored : Occurrences(scored, scored[k]) <= 1

(* ---------------------------------------------------------------------- *)
(* The same reconcile call made again in the same process                  *)
(* ---------------------------------------------------------------------- *)

\* How many times a returned call is made again
MaxRepeats == 1

\* Gazetteers of one complete row
RepeatSources == {s \in Sources : CanLoad(s) /\ Len(s.rows) = 1}

InitRepeat ==
  /\ source \in RepeatSources
  /\ ref_data = <<>> /\ ref_set = {} /\ ref_list = <<>>
  /\ pc = "idle"
  /\ engine = "none" /\ threshold = 0 /\ data = <<>> /\ failVal = Null
  /\ validated_data = <<>> /\ unique_fuzzy = <<>> /\ fuzzy_results = EmptyMap
  /\ i = 0 /\ progress = <<>> /\ scored = <<>>
  /\ NormIdle /\ CallIdle /\ AppIdle

\* The call made again by a process whose list(ref_set) comes out in another
\* order
ReconcileAgainReordered ==
  /\ pc = "returned"
  /\ calls < MaxRepeats
  /\ calls' = calls + 1
  /\ last_output' = validated_data
  /\ ref_list' \in Orderings(ref_set)
  /\ validated_data' = InitResults(data)
  /\ unique_fuzzy' = <<>>
  /\ fuzzy_results' = EmptyMap
  /\ i' = 0
  /\ progress' = <<>>
  /\ scored' = <<>>
  /\ pc' = IF engine = "optimized" THEN "exact" ELSE "rows"
  /\ UNCHANGED << source, ref_data, ref_set, engine, threshold, data, failVal,
                  cancel_requested, normVars, appVars >>

\* The caller keeps the returned frame and calls the same function again with
\* the same data, ref_data, ref_set and threshold. Every name of lines 89-154
\* (220-276) is a local of the call, the module has no globals, and
\* list(ref_set) enumerates the unchanged set object as before.
ReconcileAgain ==
  /\ pc = "returned"
  /\ calls < MaxRepeats
  /\ calls' = calls + 1
  /\ last_output' = validated_data
  /\ validated_data' = InitResults(data)
  /\ unique_fuzzy' = <<>>
  /\ fuzzy_results' = EmptyMap
  /\ i' = 0
  /\ progress' = <<>>
  /\ scored' = <<>>
  /\ pc' = IF engine = "optimized" THEN "exact" ELSE "rows"
  /\ UNCHANGED << source, ref_data, ref_set, ref_list, engine, threshold, data,
                  failVal, cancel_requested, normVars, appVars >>

NextRepeat ==
  \/ LoadReferenceData
  \/ CallOptimized
  \/ CallRowwise
  \/ OptExactReturn
  \/ OptExactContinue
  \/ OptFuzzySkip
  \/ OptFuzzyStep
  \/ OptFuzzyRaise
  \/ OptApply
  \/ RowSkip
  \/ RowExact
  \/ RowFuzzy
  \/ RowRaise
  \/ RowFinish
  \/ ReconcileAgain

SpecRepeat == InitRepeat /\ [][NextRepeat]_vars

\* The caller's rows are the ones passed in, and the index is the loaded one
CallRunning == pc \in {"exact", "fuzzy", "rows", "returned", "raised"}

MaxBig == 101

BigSizes == {0, 1, 11, 21, MaxBig}

\* A three-letter name, different for every k below 676
BigValue(k) == << "z", LowerSeq[((k \div 26) % 26) + 1], LowerSeq[(k % 26) + 1] >>

\* distinct: every row has a name of its own; mixed: every third row is
\* missing, every third is the gazetteer key; repeated: one name throughout
BigPatterns == {"distinct", "mixed", "repeated"}

BigPlaces(n, pattern) ==
  [k \in 1..n |->
     CASE pattern = "distinct" -> BigValue(k)
       [] pattern = "mixed" ->
            IF k % 3 = 1 THEN Null ELSE IF k % 3 = 2 THEN Jakarta ELSE BigValue(k)
       [] pattern = "repeated" -> BigValue(1)]

CallBig(e, first) ==
  /\ pc = "ready"
  /\ \E n \in BigSizes, pattern \in BigPatterns :
       /\ data' = MakeData(BigPlaces(n, pattern))
       /\ validated_data' = InitResults(data')
  /\ engine' = e
  /\ threshold' = DefaultThreshold
  /\ failVal' = Null
  /\ unique_fuzzy' = <<>>
  /\ fuzzy_results' = EmptyMap
  /\ i' = 0
  /\ progress' = <<>>
  /\ scored' = <<>>
  /\ pc' = first
  /\ UNCHANGED << source, ref_data, ref_set, ref_list, normVars, callVars, appVars >>

BigCallOptimized == CallBig("optimized", "exact")

BigCallRowwise == CallBig("rowwise", "rows")

NextBig ==
  \/ LoadReferenceData
  \/ BigCallOptimized
  \/ BigCallRowwise
  \/ OptExactReturn
  \/ OptExactContinue
  \/ OptFuzzySkip
  \/ OptFuzzyStep
  \/ OptApply
  \/ RowSkip
  \/ RowExact
  \/ RowFuzzy
  \/ RowFinish

SpecBig == InitScenario /\ [][NextBig]_vars

\* Comparison of two fractions <<numerator, denominator>>, denominators > 0
FracLeq(a, b) == a[1] * b[2] <= b[1] * a[2]

FracLess(a, b) == a[1] * b[2] < b[1] * a[2]

\* C19: every fraction passed to the progress callback lies in [0,1], the
\* fractions are non-decreasing in the order reported, and every fraction
\* reported before the final one of a returned call is strictly less than 1.
C19_ProgressWellFormed ==
  \A k \in DOMAIN progress :
       /\ progress[k][2] > 0
       /\ FracLeq(<<0, 1>>, progress[k])
       /\ FracLeq(progress[k], One)
       /\ k < Len(progress) => FracLeq(progress[k], progress[k + 1])
       /\ (k < Len(progress) \/ ~Returned) => FracLess(progress[k], One)

\* C19 witness: the optimized engine has returned after reporting at the
\* unique values 0 and 100, the row-wise one after reporting at a row past 0.
C19_Witness ==
  /\ Returned
  /\ Len(progress) = 3
  /\ FracLess(<<0, 1>>, progress[2])
  /\ engine = "optimized" => progress[2] = <<100, Len(unique_fuzzy)>>

(* ---------------------------------------------------------------------- *)
(* The same row set, index and threshold given to the other engine         *)
(* ---------------------------------------------------------------------- *)

OtherEngine(e) == IF e = "optimized" THEN "rowwise" ELSE "optimized"

\* The caller keeps the returned frame and hands the same data, ref_data,
\* ref_set and threshold to the other of the two functions (as the two
\* branches of app.py 151-162 do for the two sizes of upload)
ReconcileOther ==
  /\ pc = "returned"
  /\ calls = 0
  /\ calls' = 1
  /\ last_output' = validated_data
  /\ engine' = OtherEngine(engine)
  /\ validated_data' = InitResults(data)
  /\ unique_fuzzy' = <<>>
  /\ fuzzy_results' = EmptyMap
  /\ i' = 0
  /\ progress' = <<>>
  /\ scored' = <<>>
  /\ pc' = IF engine' = "optimized" THEN "exact" ELSE "rows"
  /\ UNCHANGED << source, ref_data, ref_set, ref_list, threshold, data, failVal,
                  cancel_requested, normVars, appVars >>

NextBoth ==
  \/ LoadReferenceData
  \/ CallOptimized
  \/ CallRowwise
  \/ OptExactReturn
  \/ OptExactContinue
  \/ OptFuzzySkip
  \/ OptFuzzyStep
  \/ OptFuzzyRaise
  \/ OptApply
  \/ RowSkip
  \/ RowExact
  \/ RowFuzzy
  \/ RowRaise
  \/ RowFinish
  \/ ReconcileOther

SpecBoth == InitRepeat /\ [][NextBoth]_vars

\* C21: for the same row set, index and threshold the two engines return the
\* same five result fields for every row, also when a canonical name of the
\* gazetteer normalizes to the empty string.
C21_EnginesAgree ==
  (Returned /\ calls = 1) =>
    \A k \in Rows : \A c \in ResultColumns :
      validated_data[k][c] = last_output[k][c]

\* C22: the normalizer called on a key of the alias table returns the
\* replacement of that key, also for keys that begin with a stripped prefix
\* ("KOTA BARU") or hold digits ("50 KOTA").
C22_AliasFiresOnOwnKey ==
  (nPc = "ret" /\ nCall = 1 /\ IsAliasKey(nOrig)) =>
    \E k \in DOMAIN special_cases :
      special_cases[k][1] = nOrig /\ nOut = special_cases[k][2]

(* ---------------------------------------------------------------------- *)
(* A gazetteer name of two words and places that hold the same words       *)
(* ---------------------------------------------------------------------- *)

\* One source row: the province "Ab Cd" and its regency "AB", a name that is
\* its own normalization
OrderSource ==
  [readable |-> TRUE, columns |-> RequiredColumns,
   rows |-> << [NAMOBJ |-> Null, WADMKD |-> Null, WADMKC |-> Null,
                WADMKK |-> <<"A", "B">>,
                WADMPR |-> <<"A", "b", " ", "C", "d">>] >>]

\* The name itself, its words in the other order, one of its words, a missing
\* place
OrderPool ==
  { <<"A", "b", " ", "C", "d">>, <<"C", "d", " ", "A", "b">>, <<"a", "b">>, Null }

InitOrder ==
  /\ source = OrderSource
  /\ ref_data = <<>> /\ ref_set = {} /\ ref_list = <<>>
  /\ pc = "idle"
  /\ engine = "none" /\ threshold = 0 /\ data = <<>> /\ failVal = Null
  /\ validated_data = <<>> /\ unique_fuzzy = <<>> /\ fuzzy_results = EmptyMap
  /\ i = 0 /\ progress = <<>> /\ scored = <<>>
  /\ NormIdle /\ CallIdle /\ AppIdle

OrderCallOptimized ==
  CallWith("optimized", "exact", OrderPool, {DefaultThreshold})

OrderCallRowwise ==
  CallWith("rowwise", "rows", OrderPool, {DefaultThreshold})

NextOrder ==
  \/ LoadReferenceData
  \/ OrderCallOptimized
  \/ OrderCallRowwise
  \/ OptExactReturn
  \/ OptExactContinue
  \/ OptFuzzySkip
  \/ OptFuzzyStep
  \/ OptFuzzyRaise
  \/ OptApply
  \/ RowSkip
  \/ RowExact
  \/ RowFuzzy
  \/ RowRaise
  \/ RowFinish

SpecOrder == InitOrder /\ [][NextOrder]_vars

\* C23: a returned row has confidence_score 100 only if its normalized place
\* is a gazetteer key; a row matched by the approximate stage has a score
\* strictly below 100.
C23_HundredMeansExact ==
  Returned =>
    \A k \in Rows :
      validated_data[k].confidence_score = Pct(100) => Norm(k) \in ref_set

\* The field holds a value (None is the absent one)
Present(v) == ~(Null = v)

\* C24: in every returned row valid_tempat_lahir is true iff the corrected
\* name is present iff the level is present; a valid row has score 100 or a
\* score from the threshold up to 100; every score lies in 0..100.
C24_ResultFieldsConsistent ==
  Returned =>
    \A k \in Rows :
      LET row == validated_data[k]
      IN /\ row.valid_tempat_lahir \in BOOLEAN
         /\ row.valid_tempat_lahir <=> Present(row.koreksi_tempat_lahir)
         /\ row.valid_tempat_lahir <=> Present(row.level_administrasi)
         /\ row.confidence_score >= 0 /\ row.confidence_score <= Pct(100)
         /\ row.valid_tempat_lahir =>
              (row.confidence_score = Pct(100)
                 \/ row.confidence_score >= Pct(threshold))

\* C24 witness: a returned row set holds an exact hit, and another one an
\* accepted approximate match with a score below 100 next to an unmatched row.
C24_Witness ==
  /\ Returned
  /\ \E k \in Rows, h \in Rows :
       /\ validated_data[k].valid_tempat_lahir
       /\ NeedsFuzzy(k)
       /\ validated_data[k].confidence_score < Pct(100)
       /\ ~validated_data[h].valid_tempat_lahir

\* The four levels load_reference_data assigns (lines 174, 180, 186, 192)
FourLevels == {"desa", "kecamatan", "kabupaten", "provinsi"}

\* Once loaded, the candidate set is the key set of the lookup map, and the
\* level of every returned row is one of the four levels or absent
IndexAndLevels ==
  /\ pc # "idle" => ref_set = DOMAIN ExactMatchMap(ref_data)
  /\ Returned =>
       \A k \in Rows :
         Present(validated_data[k].level_administrasi) =>
           validated_data[k].level_administrasi \in FourLevels

\* C25 as stated: the candidate set equals the key set of the lookup map, no
\* returned row has the level 'tidak diketahui' (every level is one of the
\* four or absent), and no returned row has the normalized candidate string
\* as its corrected name.
C25_Original ==
  /\ IndexAndLevels
  /\ Returned =>
       \A k \in Rows :
         validated_data[k].valid_tempat_lahir =>
           validated_data[k].koreksi_tempat_lahir # MatchedKey(k)

\* C25 amended: the candidate set equals the key set of the lookup map, every
\* level is one of the four or absent, and the corrected name and level of a
\* valid row are the nama and level of a reference row whose normalized name
\* is the matched key (so the fallback of the lookup is never used).
C25_IndexConsistent ==
  /\ IndexAndLevels
  /\ Returned =>
       \A k \in Rows :
         validated_data[k].valid_tempat_lahir =>
           /\ MatchedKey(k) \in DOMAIN ExactMatchMap(ref_data)
           /\ \E j \in DOMAIN ref_data :
                /\ ref_data[j].nama_normalized = MatchedKey(k)
                /\ validated_data[k].koreksi_tempat_lahir = ref_data[j].nama
                /\ validated_data[k].level_administrasi = ref_data[j].level

\* C25 witness: a returned row was matched approximately and carries the
\* canonical name of its candidate, another one carries a canonical name that
\* is its own normalization.
C25_Witness ==
  /\ Returned
  /\ \E k \in Rows, h \in Rows :
       /\ NeedsFuzzy(k) /\ validated_data[k].valid_tempat_lahir
       /\ validated_data[k].koreksi_tempat_lahir # MatchedKey(k)
       /\ validated_data[h].valid_tempat_lahir
       /\ validated_data[h].koreksi_tempat_lahir = MatchedKey(h)

(* ---------------------------------------------------------------------- *)
(* Rows whose place is a name of the gazetteer source itself               *)
(* ---------------------------------------------------------------------- *)

\* The columns that hold names (lines 172, 177, 183, 189)
NameColumns == {"WADMKD", "WADMKC", "WADMKK", "WADMPR"}

\* Every name present at some level of the source table
SourceNames(src) ==
  {src.rows[k][c] : k \in DOMAIN src.rows, c \in NameColumns} \ {Null}

OwnCallOptimized ==
  CallWith("optimized", "exact", SourceNames(source), Thresholds)

OwnCallRowwise ==
  CallWith("rowwise", "rows", SourceNames(source), Thresholds)

\* No distinct value of these row sets is missing or empty outside the index,
\* so the skip of lines 124-125 has no step here
NextOwn ==
  \/ LoadReferenceData
  \/ OwnCallOptimized
  \/ OwnCallRowwise
  \/ OptExactReturn
  \/ OptExactContinue
  \/ OptFuzzyStep
  \/ OptFuzzyRaise
  \/ OptApply
  \/ RowSkip
  \/ RowExact
  \/ RowFuzzy
  \/ RowRaise
  \/ RowFinish

SpecOwn == InitRepeat /\ [][NextOwn]_vars

\* C26: a row whose place is exactly a name present at some level of the
\* source table is returned valid with confidence_score 100 by both engines
\* when reconciled against the index built from that table.
C26_OwnNamesValidate ==
  Returned =>
    \A k \in Rows :
      data[k].TEMPAT_LAHIR \in SourceNames(source) =>
        /\ validated_data[k].valid_tempat_lahir
        /\ validated_data[k].confidence_score = Pct(100)

\* The least integer not below a / b
Ceil(a, b) == (a + b - 1) \div b

C28_MissingPlaceStaysMissing ==
  \A k \in DOMAIN app_file :
    (app_file[k].TEMPAT_LAHIR = Null /\ k \in DOMAIN validated_data) =>
      /\ IsBlank(validated_data[k].tempat_lahir_normalized)
      /\ \A h \in DOMAIN scored :
           scored[h] # validated_data[k].tempat_lahir_normalized
      /\ Unmatched(validated_data[k])
      /\ validated_data[k].confidence_score = 0

\* The six field checks and the column each one fills
FieldChecks ==
  { <<"KK_NO", "valid_kk_no">>, <<"NIK", "valid_nik">>,
    <<"CUSTNAME", "valid_custname">>,
    <<"JENIS_KELAMIN", "valid_jenis_kelamin">>,
    <<"TEMPAT_LAHIR", "valid_tempat_lahir">>,
    <<"TANGGAL_LAHIR", "valid_tanggal_lahir">> }

\* The entries of a note that belong to a field
EntriesOf(note, field) ==
  IF note = Null THEN 0
  ELSE Cardinality({h \in DOMAIN note : note[h][1] = field})

RequestCancel ==
  /\ pc \in {"exact", "fuzzy"}
  /\ ~cancel_requested
  /\ cancel_requested' = TRUE
  /\ UNCHANGED << mainVars, normVars, calls, last_output, appVars >>

NextCancel ==
  \/ LoadReferenceData
  \/ CallOptimized
  \/ OptExactReturn
  \/ OptExactContinue
  \/ OptFuzzySkip
  \/ OptFuzzyStep
  \/ OptFuzzyRaise
  \/ OptApply
  \/ RequestCancel

SpecCancel == InitRepeat /\ [][NextCancel]_vars

\* C30: once the caller has requested cancellation of a running batch, the
\* engine starts no further approximate match: the check at the top of the
\* per-distinct-value loop ends the batch before the next value is scored.
C30_CancelStopsMatching ==
  [][cancel_requested => scored' = scored]_vars
====
